---------------------------- MODULE Spec2Model ----------------------------
(***************************************************************************)
(* Feature extractors of laserchicken: echo ratio, height percentiles and  *)
(* the vectorized eigen-structure extractor, with the serial eigenvalue    *)
(* implementation the tests compare it to.                                 *)
(*                                                                         *)
(* Floating point values are modelled as exact rationals plus the IEEE     *)
(* special values NaN, +Inf and -Inf.  A value is a record [num, den]:     *)
(* den > 0 and gcd(num, den) = 1 for a finite value, den = 0 for a special *)
(* one (num = 0: NaN, num = 1: +Inf, num = -1: -Inf).  Rounding is not     *)
(* modelled.                                                               *)
(*                                                                         *)
(* Python's None is the empty tuple and a present optional value v is the  *)
(* one-element tuple <<v>>.  Indices are Python's, counted from 0.         *)
(***************************************************************************)
EXTENDS Integers, Sequences, FiniteSets, TLC

\* sourcepc, targetpc: the two clouds the caller holds
\* neighborhood_arg:   the caller's index list object that was passed to extract
\* pc, call, ret:      the caller's position, the arguments as they were at
\*                     the time of the call, and what the call produced
\* wpc, wcall, wret:    the same for each of the workers that call extract
\*                     concurrently
\* frames:             the local variables of each extract call in progress
VARIABLES sourcepc, targetpc, neighborhood_arg, pc, call, ret,
          wpc, wcall, wret, frames

workers == <<wpc, wcall, wret, frames>>

vars == <<sourcepc, targetpc, neighborhood_arg, pc, call, ret, workers>>

---------------------------------------------------------------------------
(* Bounds of the model.                                                    *)

\* longest neighbourhood (number of indices) passed to an extractor
MaxNbr == 4

\* largest number of neighbourhoods in one vectorized call
MaxBatch == 2

---------------------------------------------------------------------------
(* Floating point arithmetic (numpy float64), exact.                       *)

Abs(a) == IF a < 0 THEN -a ELSE a

Sign(a) == IF a < 0 THEN -1 ELSE IF a > 0 THEN 1 ELSE 0

RECURSIVE Gcd(_, _)
Gcd(a, b) == IF b = 0 THEN a ELSE Gcd(b, a % b)

NaN == [num |-> 0, den |-> 0]

\* the float of the fraction a / b, b # 0
Frac(a, b) ==
    LET g == Gcd(Abs(a), Abs(b))
    IN  [num |-> Sign(b) * (a \div g), den |-> Abs(b) \div g]

\* the float of the integer a
Flt(a) == [num |-> a, den |-> 1]

IsNaN(v) == v.den = 0 /\ v.num = 0

IsFinite(v) == v.den > 0

\* numpy true division: x / 0 is nan for x = 0 and +-inf otherwise, with a
\* RuntimeWarning and no exception
FDiv(a, b) ==
    IF IsNaN(a) \/ IsNaN(b) THEN NaN
    ELSE IF ~IsFinite(a)
         THEN IF ~IsFinite(b) THEN NaN
              ELSE [num |-> a.num * (IF b.num < 0 THEN -1 ELSE 1), den |-> 0]
    ELSE IF ~IsFinite(b) THEN Flt(0)
    ELSE IF b.num = 0 THEN [num |-> Sign(a.num), den |-> 0]
    ELSE Frac(a.num * b.den, a.den * b.num)

FMul(a, b) ==
    IF IsNaN(a) \/ IsNaN(b) THEN NaN
    ELSE IF ~IsFinite(a) \/ ~IsFinite(b)
         THEN [num |-> Sign(a.num) * Sign(b.num), den |-> 0]
    ELSE Frac(a.num * b.num, a.den * b.den)

FAdd(a, b) ==
    IF IsNaN(a) \/ IsNaN(b) THEN NaN
    ELSE IF ~IsFinite(a)
         THEN IF ~IsFinite(b) /\ a.num # b.num THEN NaN ELSE a
    ELSE IF ~IsFinite(b) THEN b
    ELSE Frac(a.num * b.den + b.num * a.den, a.den * b.den)

FNeg(a) == [num |-> -a.num, den |-> a.den]

FSub(a, b) == FAdd(a, FNeg(b))

\* a <= b on floats; every comparison with nan is false
FLeq(a, b) ==
    IF IsNaN(a) \/ IsNaN(b) THEN FALSE
    ELSE IF ~IsFinite(a) THEN a.num < 0 \/ a = b
    ELSE IF ~IsFinite(b) THEN b.num > 0
    ELSE a.num * b.den <= b.num * a.den

\* the sum of the first n elements of the sequence s of floats
RECURSIVE FSumTo(_, _)
FSumTo(s, n) == IF n = 0 THEN Flt(0) ELSE FAdd(FSumTo(s, n - 1), s[n])

\* np.sum / np.add.reduce of a sequence of floats
FSum(s) == FSumTo(s, Len(s))

---------------------------------------------------------------------------
(* Python values.                                                          *)

None == <<>>

Some(v) == <<v>>

\* range(a, b): a, a+1, ..., b-1
Range(a, b) == [k \in 1..(b - a) |-> a + k - 1]

\* list.reverse / a[::-1]
Reverse(s) == [k \in 1..Len(s) |-> s[Len(s) + 1 - k]]

\* s, a sequence of records sorted by their float field key, with the
\* record r inserted after the last record whose key is <= r.key
RECURSIVE Insert(_, _)
Insert(s, r) ==
    IF s = <<>> THEN <<r>>
    ELSE IF FLeq(s[Len(s)].key, r.key) THEN Append(s, r)
    ELSE Append(Insert(SubSeq(s, 1, Len(s) - 1), r), s[Len(s)])

RECURSIVE SortByKey(_)
SortByKey(s) ==
    IF s = <<>> THEN <<>>
    ELSE Insert(SortByKey(SubSeq(s, 1, Len(s) - 1)), s[Len(s)])

\* np.sort of a sequence of floats: ascending
Sort(s) ==
    LET keyed  == [k \in 1..Len(s) |-> [key |-> s[k], val |-> k]]
        sorted == SortByKey(keyed)
    IN  [k \in 1..Len(s) |-> sorted[k].key]

\* np.argsort of a sequence of floats: the 0-based indices that sort it
\* ascending, equal values in their original order
ArgSort(s) ==
    LET keyed  == [k \in 1..Len(s) |-> [key |-> s[k], val |-> k - 1]]
        sorted == SortByKey(keyed)
    IN  [k \in 1..Len(s) |-> sorted[k].val]

---------------------------------------------------------------------------
(* Point clouds, neighbourhoods and volumes: the inputs of the extractors. *)

\* A point cloud holds the attribute arrays x, y and z, index-aligned.
\* Source points (index 0..5): the corners of a rectangle in the x-z plane,
\* twice as high as wide (0..3), one point off that plane (4) and one more
\* on the x axis (5).
SourceCloud ==
    [x |-> <<0, 0, 1, 1, 0, 2>>,
     y |-> <<0, 0, 0, 0, 1, 0>>,
     z |-> <<0, 2, 0, 2, 0, 0>>]

TargetCloud ==
    [x |-> <<0, 1>>,
     y |-> <<0, 0>>,
     z |-> <<0, 2>>]

NumPoints(cloud) == Len(cloud.x)

Radii == {1, 2}

InfiniteCylinder(r) == [TYPE |-> "infinite cylinder", radius |-> r]

Sphere(r) == [TYPE |-> "sphere", radius |-> r]

Volumes == {InfiniteCylinder(r) : r \in Radii} \cup {Sphere(r) : r \in Radii}

\* index sequences of length 0..MaxNbr into a cloud of n points, repeated
\* indices allowed; a neighbourhood is an unordered collection to every
\* extractor, so one (non-decreasing) order of each is enumerated
IndexLists(n) ==
    {<<>>} \cup
    UNION {{s \in [1..len -> 0..(n - 1)] :
               \A k \in 1..(len - 1) : s[k] <= s[k + 1]} : len \in 1..MaxNbr}

\* a neighbourhood argument: a flat list of indices, or a list of lists
Flat(idx) == [flat |-> TRUE, idx |-> idx]

Batch(lists) == [flat |-> FALSE, idx |-> lists]

---------------------------------------------------------------------------
(* What a call of extract produces: a value, or an exception.              *)

Returns(v) == [kind |-> "value", exc |-> "", val |-> v]

Raises(e) == [kind |-> "raise", exc |-> e, val |-> <<>>]

NoResult == [kind |-> "none", exc |-> "", val |-> <<>>]

---------------------------------------------------------------------------
(* EchoRatioFeatureExtractor                                               *)

\* point_cloud[point][attr]['data'][neighborhood], as rows (x, y, z)
get_neighborhood_positions(point_cloud, neighborhood) ==
    [k \in 1..Len(neighborhood) |->
        <<point_cloud.x[neighborhood[k] + 1],
          point_cloud.y[neighborhood[k] + 1],
          point_cloud.z[neighborhood[k] + 1]>>]

get_target_position(target_point_cloud, target_index) ==
    <<target_point_cloud.x[target_index + 1],
      target_point_cloud.y[target_index + 1],
      target_point_cloud.z[target_index + 1]>>

\* the sphere without its surface
InSphereStrict(row, xyz0, radius) ==
      (row[1] - xyz0[1]) * (row[1] - xyz0[1])
    + (row[2] - xyz0[2]) * (row[2] - xyz0[2])
    + (row[3] - xyz0[3]) * (row[3] - xyz0[3]) < radius * radius

\* np.sum((row - xyz0) ** 2) <= radius ** 2
InSphere(row, xyz0, radius) ==
      (row[1] - xyz0[1]) * (row[1] - xyz0[1])
    + (row[2] - xyz0[2]) * (row[2] - xyz0[2])
    + (row[3] - xyz0[3]) * (row[3] - xyz0[3]) <= radius * radius

\* np.sum of a boolean array: the number of its true entries
CountTrue(b) == Cardinality({k \in 1..Len(b) : b[k]})

\* a check of the volume that lets a sphere pass
IsCylinderOrSphere(volume_description) ==
    volume_description.TYPE \in {"infinite cylinder", "sphere"}

\* volume_description.TYPE == 'infinite cylinder'
IsCylinder(volume_description) == volume_description.TYPE = "infinite cylinder"

\* provides
EchoRatioProvides == <<"echo_ratio">>

\* the ratio taken the wrong way round: n_cylinder / n_sphere * 100.
EchoRatioExtractInverted(point_cloud, neighborhood, target_point_cloud, target_index, volume_description) ==
    IF ~IsCylinder(volume_description)
      THEN Raises("ValueError")
    ELSE IF target_point_cloud = None
      THEN Raises("ValueError")
    ELSE IF target_index = None
      THEN Raises("ValueError")
    ELSE
      LET xyz        == get_neighborhood_positions(point_cloud, neighborhood)
          n_cylinder == Len(xyz)
          xyz0       == get_target_position(target_point_cloud[1], target_index[1])
          n_sphere   == CountTrue([k \in 1..Len(xyz) |->
                           InSphere(xyz[k], xyz0, volume_description.radius)])
      IN  Returns(<<FMul(FDiv(Flt(n_cylinder), Flt(n_sphere)), Flt(100))>>)

EchoRatioExtract(point_cloud, neighborhood, target_point_cloud, target_index, volume_description) ==
    IF ~IsCylinder(volume_description)
      THEN Raises("ValueError")
    ELSE IF target_point_cloud = None
      THEN Raises("ValueError")
    ELSE IF target_index = None
      THEN Raises("ValueError")
    ELSE
      LET xyz        == get_neighborhood_positions(point_cloud, neighborhood)
          n_cylinder == Len(xyz)
          xyz0       == get_target_position(target_point_cloud[1], target_index[1])
          n_sphere   == CountTrue([k \in 1..Len(xyz) |->
                           InSphere(xyz[k], xyz0, volume_description.radius)])
      IN  Returns(<<FMul(FDiv(Flt(n_sphere), Flt(n_cylinder)), Flt(100))>>)

---------------------------------------------------------------------------
(* PercentileFeatureExtractor                                              *)

\* range(10, 110, 10)
Percentiles == [k \in 1..10 |-> 10 * k]

\* provides: ['perc_' + str(i) for i in range(10, 110, 10)]
PercentileProvides == [k \in 1..10 |-> "perc_" \o ToString(10 * k)]

\* sourcepc[point]['x']['data'][neighborhood]: the wrong attribute
GetX(sourcepc_, neighborhood) ==
    [k \in 1..Len(neighborhood) |-> Flt(sourcepc_.x[neighborhood[k] + 1])]

\* sourcepc[point]['z']['data'][neighborhood]
GetZ(sourcepc_, neighborhood) ==
    [k \in 1..Len(neighborhood) |-> Flt(sourcepc_.z[neighborhood[k] + 1])]

\* scipy.stats.scoreatpercentile(a, per), interpolation_method 'fraction':
\* nan for an empty array; otherwise the value at the fractional index
\* per / 100 * (n - 1) of the sorted array, interpolating linearly between
\* the two neighbours when the index is not whole
scoreatpercentile(a, per) ==
    IF Len(a) = 0 THEN NaN
    ELSE
      LET sorted == Sort(a)
          idx    == FMul(FDiv(Flt(per), Flt(100)), Flt(Len(a) - 1))
          i      == idx.num \div idx.den
      IN  IF Flt(i) = idx
            THEN FDiv(FMul(sorted[i + 1], Flt(1)), Flt(1))
            ELSE LET j       == i + 1
                     w1      == FSub(Flt(j), idx)
                     w2      == FSub(idx, Flt(i))
                     sumval  == FAdd(w1, w2)
                 IN  FDiv(FAdd(FMul(sorted[i + 1], w1), FMul(sorted[j + 1], w2)),
                          sumval)

PercentileExtract(sourcepc_, neighborhood) ==
    LET z == GetZ(sourcepc_, neighborhood)
    IN  Returns([k \in 1..Len(Percentiles) |-> scoreatpercentile(z, Percentiles[k])])

---------------------------------------------------------------------------
(* EigenValueVectorizeFeatureExtractor                                     *)

\* provides
EigenValueVectorizeProvides ==
    <<"eigenv_1", "eigenv_2", "eigenv_3",
      "normal_vector_1", "normal_vector_2", "normal_vector_3", "slope">>

Max(S) == CHOOSE m \in S : \A v \in S : v <= m

Axes == 1..3

\* utils.get_xyz: the batch packed into a masked array of shape
\* (batch, 3, max_length).  Entry i holds the three coordinate rows of
\* neighbourhood i, padded with 0 to max_length, and the mask row that is
\* TRUE on the padding.
get_xyz(sourcepc_, neighborhoods) ==
    LET max_length == Max({Len(neighborhoods[i]) : i \in 1..Len(neighborhoods)})
        Coord(attr, nb, k) == IF k <= Len(nb) THEN Flt(attr[nb[k] + 1]) ELSE Flt(0)
    IN  [i \in 1..Len(neighborhoods) |->
          LET nb == neighborhoods[i]
          IN  [data |-> <<[k \in 1..max_length |-> Coord(sourcepc_.x, nb, k)],
                          [k \in 1..max_length |-> Coord(sourcepc_.y, nb, k)],
                          [k \in 1..max_length |-> Coord(sourcepc_.z, nb, k)]>>,
               mask |-> [k \in 1..max_length |-> k > Len(nb)]]]

\* masked sum of one coordinate row: the masked entries are left out
MaskedSum(row, mask) ==
    FSum([k \in 1..Len(row) |-> IF mask[k] THEN Flt(0) ELSE row[k]])

\* n: the padded length less the number of masked entries
ValidCount(g) == (CountTrue(g.mask) * (-1)) + Len(g.mask)

\* xyz.sum(2, keepdims=True) / n
MaskedMean(g) ==
    <<FDiv(MaskedSum(g.data[1], g.mask), Flt(ValidCount(g))),
      FDiv(MaskedSum(g.data[2], g.mask), Flt(ValidCount(g))),
      FDiv(MaskedSum(g.data[3], g.mask), Flt(ValidCount(g)))>>

\* a covariance whose mean is taken over the padded length n_max
CovOfPadded(g) ==
    LET n_max == Len(g.mask)
        n     == (CountTrue(g.mask) * (-1)) + n_max
        mean  == <<FDiv(MaskedSum(g.data[1], g.mask), Flt(n_max)),
                   FDiv(MaskedSum(g.data[2], g.mask), Flt(n_max)),
                   FDiv(MaskedSum(g.data[3], g.mask), Flt(n_max))>>
        m     == [j \in Axes |-> [k \in 1..n_max |->
                     IF g.mask[k] THEN g.data[j][k] ELSE FSub(g.data[j][k], mean[j])]]
        C(j, l) == FDiv(FSum([k \in 1..n_max |-> FMul(m[j][k], m[l][k])]), Flt(n - 1))
    IN  <<<<C(1, 1), C(1, 2), C(1, 3)>>,
          <<C(2, 1), C(2, 2), C(2, 3)>>,
          <<C(3, 1), C(3, 2), C(3, 3)>>>>

\* _get_cov for one neighbourhood g of the packed batch.  Arithmetic on the
\* masked array leaves the data under the mask as it is; einsum reads the
\* data of every entry, masked or not.
CovOf(g) ==
    LET n_max == Len(g.mask)
        n     == ValidCount(g)
        mean  == MaskedMean(g)
        m     == [j \in Axes |-> [k \in 1..n_max |->
                     IF g.mask[k] THEN g.data[j][k] ELSE FSub(g.data[j][k], mean[j])]]
        C(j, l) == FDiv(FSum([k \in 1..n_max |-> FMul(m[j][k], m[l][k])]), Flt(n - 1))
    IN  <<<<C(1, 1), C(1, 2), C(1, 3)>>,
          <<C(2, 1), C(2, 2), C(2, 3)>>,
          <<C(3, 1), C(3, 2), C(3, 3)>>>>

_get_cov(xyz) == [i \in 1..Len(xyz) |-> CovOf(xyz[i])]

AllFinite(mat) == \A j \in Axes, l \in Axes : IsFinite(mat[j][l])

IsDiagonal(mat) == \A j \in Axes, l \in Axes : j # l => mat[j][l] = Flt(0)

\* the orders in which an eigen-solver may emit three eigenpairs
SolverOrders == {p \in [Axes -> Axes] : \A a, b \in Axes : a # b => p[a] # p[b]}

\* np.linalg.eig of one finite diagonal 3x3 matrix, the eigenpairs emitted in
\* the order p: eigenvalue k is the diagonal entry p[k] and column k of the
\* eigenvector matrix is the unit vector of axis p[k].  numpy does not order
\* the eigenvalues.
Eig(mat, p) ==
    [eigval   |-> [k \in Axes |-> mat[p[k]][p[k]]],
     eigvects |-> [j \in Axes |-> [k \in Axes |-> IF j = p[k] THEN Flt(1) ELSE Flt(0)]]]

\* np.linalg.eig raises LinAlgError when the stacked array holds a nan or inf
EigRaises(cov_mat) == \E i \in 1..Len(cov_mat) : ~AllFinite(cov_mat[i])

\* np.sort(eigval, axis=1) without the reversal
SortAscending(eigval) == Sort(eigval)

\* np.sort(eigval, axis=1)[:, ::-1]
SortDescending(eigval) == Reverse(Sort(eigval))

\* eigvects[:, :, 2]: the third eigenvector the solver emitted
NormalOf(eig) == [j \in Axes |-> eig.eigvects[j][3]]

\* np.dot(normals, [0., 0., 1.])
Dot(u, v) == FSum([j \in Axes |-> FMul(u[j], v[j])])

\* lines 35-38 of extract for one neighbourhood, from its eigenpairs as the
\* solver emitted them: the seven features of the neighbourhood
FeatureRow(eig) ==
    LET e       == SortDescending(eig.eigval)
        normals == NormalOf(eig)
        slope   == Dot(normals, <<Flt(0), Flt(0), Flt(1)>>)
    IN  <<e[1], e[2], e[3], normals[1], normals[2], normals[3], slope>>

\* the feature rows a neighbourhood with covariance mat may get, one for
\* each order in which the solver may emit its eigenpairs
RowOutcomes(mat) == {FeatureRow(Eig(mat, p)) : p \in SolverOrders}

\* the feature rows a batch may get: the solver orders the eigenpairs of
\* each matrix of the stack on its own
RECURSIVE BatchOutcomes(_)
BatchOutcomes(cov_mat) ==
    IF cov_mat = <<>> THEN {<<>>}
    ELSE {Append(rows, row) :
             rows \in BatchOutcomes(SubSeq(cov_mat, 1, Len(cov_mat) - 1)),
             row \in RowOutcomes(cov_mat[Len(cov_mat)])}

\* line 39 of extract: one array per feature, indexed by neighbourhood
\* the normal returned before the eigenvalues
ColumnsNormalFirst(rows) ==
    [f \in 1..7 |-> [i \in 1..Len(rows) |->
        rows[i][IF f <= 3 THEN f + 3 ELSE IF f <= 6 THEN f - 3 ELSE f]]]

Columns(rows) == [f \in 1..7 |-> [i \in 1..Len(rows) |-> rows[i][f]]]

\* the neighbourhoods of a neighbourhood argument, as extract sees them
AsBatch(neighborhood) ==
    IF neighborhood.flat THEN <<neighborhood.idx>> ELSE neighborhood.idx

\* extract: what a call may produce, one outcome for each order in which the
\* solver may emit the eigenpairs.  neighborhood[0] of an empty flat list
\* raises IndexError.
EigenValueVectorizeExtract(sourcepc_, neighborhood) ==
    IF neighborhood.idx = <<>> THEN {Raises("IndexError")}
    ELSE
      LET neighborhoods == AsBatch(neighborhood)
          xyz_grp       == get_xyz(sourcepc_, neighborhoods)
          cov_mat       == _get_cov(xyz_grp)
      IN  IF EigRaises(cov_mat) THEN {Raises("LinAlgError")}
          ELSE {Returns(Columns(rows)) : rows \in BatchOutcomes(cov_mat)}

---------------------------------------------------------------------------
(* EigenValueSerial: the serial implementation the tests compare with      *)

\* utils.get_point: the x, y and z values of the points of a neighbourhood
get_point(sourcepc_, neighborhood) ==
    <<[k \in 1..Len(neighborhood) |-> Flt(sourcepc_.x[neighborhood[k] + 1])],
      [k \in 1..Len(neighborhood) |-> Flt(sourcepc_.y[neighborhood[k] + 1])],
      [k \in 1..Len(neighborhood) |-> Flt(sourcepc_.z[neighborhood[k] + 1])]>>

\* np.cov(points, rowvar=False) of the coordinate columns cols
NpCov(cols) ==
    LET n    == Len(cols[1])
        avg  == <<FDiv(FSum(cols[1]), Flt(n)),
                  FDiv(FSum(cols[2]), Flt(n)),
                  FDiv(FSum(cols[3]), Flt(n))>>
        X    == [j \in Axes |-> [k \in 1..n |-> FSub(cols[j][k], avg[j])]]
        C(j, l) == FDiv(FSum([k \in 1..n |-> FMul(X[j][k], X[l][k])]), Flt(n - 1))
    IN  <<<<C(1, 1), C(1, 2), C(1, 3)>>,
          <<C(2, 1), C(2, 2), C(2, 3)>>,
          <<C(3, 1), C(3, 2), C(3, 3)>>>>

\* points.shape[0] > 3
EnoughPoints(n) == n > 3

\* _structure_tensor for points.shape[0] > 3, from the covariance matrix on:
\* the eigenpairs, the eigenvalues descending; p is the order in which the
\* solver emits them
structure_tensor(cov_mat, p) ==
    LET eig     == Eig(cov_mat, p)
        order   == ArgSort([k \in Axes |-> FNeg(eig.eigval[k])])
    IN  [eigenvalues  |-> [k \in Axes |-> eig.eigval[order[k] + 1]],
         eigenvectors |-> [j \in Axes |-> [k \in Axes |-> eig.eigvects[j][order[k] + 1]]]]

\* extract: what a call may produce, one outcome for each order in which the
\* solver may emit the eigenpairs; [0, 0, 0] when _structure_tensor raises
\* for too few points
EigenValueSerialExtract(sourcepc_, neighborhood) ==
    LET cols == get_point(sourcepc_, neighborhood)
    IN  IF EnoughPoints(Len(neighborhood))
          THEN LET cov_mat == NpCov(cols)
               IN  {LET st == structure_tensor(cov_mat, p)
                    IN  Returns(<<st.eigenvalues[1], st.eigenvalues[2], st.eigenvalues[3]>>) :
                       p \in SolverOrders}
          ELSE {Returns(<<Flt(0), Flt(0), Flt(0)>>)}

---------------------------------------------------------------------------
(* The neighbourhoods given to the eigen extractors.                       *)

\* non-empty sequences of length <= n over S
SeqsUpTo(S, n) ==
    LET elements == {e : e \in S}
    IN  UNION {[1..len -> elements] : len \in 1..n}

\* Lists of distinct indices whose covariance, where it is defined, is a
\* diagonal matrix: for these the eigenpairs are exact (the diagonal entries
\* and the axes).
EigenNeighborhoods ==
    {nb \in IndexLists(NumPoints(SourceCloud)) :
        /\ \A k \in 1..(Len(nb) - 1) : nb[k] < nb[k + 1]
        /\ \E cov \in {CovOf(get_xyz(SourceCloud, <<nb>>)[1])} :
              AllFinite(cov) => IsDiagonal(cov)}

\* the batches of 1..MaxBatch such neighbourhoods
EigenBatches == SeqsUpTo(EigenNeighborhoods, MaxBatch)

---------------------------------------------------------------------------
(* The state machine: a caller holds a source and a target cloud and calls *)
(* extract of one extractor at a time.                                     *)

\* the workers of the dispatcher
Workers == {1, 2}

\* the local variables of a call of extract that has not assigned any
NoFrame ==
    [xyz |-> <<>>, n_cylinder |-> 0, xyz0 |-> <<>>, n_sphere |-> 0,
     xyz_grp |-> <<>>, cov_mat |-> <<>>]

NoCall ==
    [op |-> "none", neighborhood |-> Flat(<<>>), target_point_cloud |-> None,
     target_index |-> None, volume |-> None]

Init ==
    /\ sourcepc = SourceCloud
    /\ targetpc = TargetCloud
    /\ neighborhood_arg = NoCall.neighborhood
    /\ pc = "idle"
    /\ call = NoCall
    /\ ret = NoResult
    /\ wpc = [w \in Workers |-> "idle"]
    /\ wcall = [w \in Workers |-> NoCall]
    /\ wret = [w \in Workers |-> NoResult]
    /\ frames = [w \in Workers |-> NoFrame]

CallEchoRatio ==
    /\ pc = "idle"
    /\ \E nb \in IndexLists(NumPoints(sourcepc)),
          tpc \in {None, Some(targetpc)},
          ti \in {None} \cup {Some(i) : i \in 0..(NumPoints(targetpc) - 1)},
          vol \in Volumes :
          /\ call' = [op |-> "echo_ratio", neighborhood |-> Flat(nb),
                      target_point_cloud |-> tpc, target_index |-> ti,
                      volume |-> Some(vol)]
          /\ ret' = EchoRatioExtract(sourcepc, nb, tpc, ti, vol)
          /\ neighborhood_arg' = Flat(nb)
    /\ pc' = "done"
    /\ UNCHANGED <<sourcepc, targetpc, workers>>

\* a percentile extract that sorts the z array of the source cloud in place
CallPercentileSortingInPlace ==
    /\ pc = "idle"
    /\ \E nb \in IndexLists(NumPoints(sourcepc)),
          tpc \in {None, Some(targetpc)} :
          /\ call' = [op |-> "percentile", neighborhood |-> Flat(nb),
                      target_point_cloud |-> tpc,
                      target_index |-> IF tpc = None THEN None ELSE Some(0),
                      volume |-> None]
          /\ ret' = PercentileExtract(sourcepc, nb)
          /\ neighborhood_arg' = Flat(nb)
    /\ pc' = "done"
    /\ sourcepc' = [sourcepc EXCEPT !.z =
                       LET sorted == Sort([k \in 1..Len(sourcepc.z) |-> Flt(sourcepc.z[k])])
                       IN  [k \in 1..Len(sourcepc.z) |-> sorted[k].num]]
    /\ UNCHANGED <<targetpc, workers>>

CallPercentile ==
    /\ pc = "idle"
    /\ \E nb \in IndexLists(NumPoints(sourcepc)),
          tpc \in {None, Some(targetpc)} :
          /\ call' = [op |-> "percentile", neighborhood |-> Flat(nb),
                      target_point_cloud |-> tpc,
                      target_index |-> IF tpc = None THEN None ELSE Some(0),
                      volume |-> None]
          /\ ret' = PercentileExtract(sourcepc, nb)
          /\ neighborhood_arg' = Flat(nb)
    /\ pc' = "done"
    /\ UNCHANGED <<sourcepc, targetpc, workers>>

CallEigenValueVectorize ==
    /\ pc = "idle"
    /\ \E lists \in EigenBatches, flat \in BOOLEAN :
          \* a single neighbourhood is passed as a flat list or as a batch of one
          /\ flat => Len(lists) = 1
          /\ LET nbh == IF flat THEN Flat(lists[1]) ELSE Batch(lists)
             IN  /\ call' = [op |-> "eigen", neighborhood |-> nbh,
                             target_point_cloud |-> None, target_index |-> None,
                             volume |-> None]
                 /\ ret' \in EigenValueVectorizeExtract(sourcepc, nbh)
                 \* line 28 rebinds the local name, the caller's list is not touched
                 /\ neighborhood_arg' = nbh
    /\ pc' = "done"
    /\ UNCHANGED <<sourcepc, targetpc, workers>>

CallEigenValueSerial ==
    /\ pc = "idle"
    /\ \E nb \in EigenNeighborhoods :
          /\ call' = [op |-> "eigen_serial", neighborhood |-> Flat(nb),
                      target_point_cloud |-> None, target_index |-> None,
                      volume |-> None]
          /\ ret' \in EigenValueSerialExtract(sourcepc, nb)
          /\ neighborhood_arg' = Flat(nb)
    /\ pc' = "done"
    /\ UNCHANGED <<sourcepc, targetpc, workers>>

\* the caller takes the result and is ready for the next call
Return ==
    /\ pc = "done"
    /\ pc' = "idle"
    /\ call' = NoCall
    /\ ret' = NoResult
    /\ neighborhood_arg' = NoCall.neighborhood
    /\ UNCHANGED <<sourcepc, targetpc, workers>>

Next ==
    \/ CallEchoRatio
    \/ CallPercentile
    \/ CallEigenValueVectorize
    \/ CallEigenValueSerial
    \/ Return

Spec == Init /\ [][Next]_vars

---------------------------------------------------------------------------
(* Concurrent extraction: the dispatcher gives each worker its own range   *)
(* of targets and the workers call extract of one extractor on the same    *)
(* clouds, without locks.  A step of a worker is one statement of extract. *)

\* the neighbourhoods the workers are given
WorkerNeighborhoods == {<<0>>, <<0, 1>>, <<0, 2>>, <<0, 1, 2, 3>>}

\* the batches the workers are given: one neighbourhood, or two of unequal
\* size
WorkerBatches ==
    {<<nb>> : nb \in WorkerNeighborhoods}
        \cup {b \in [1..2 -> WorkerNeighborhoods] : Len(b[1]) < Len(b[2])}

\* a variable assigned in extract without lock on self: every call has its
\* locals in one place
SharedFrame(w) == 1

\* the local variables of extract live in the frame of the call: each call
\* of a worker has its own
FrameOf(w) == w

\* the value of the locals of worker w, and the frames after it assigns
Locals(w) == frames[FrameOf(w)]

Assign(w, new) == [frames EXCEPT ![FrameOf(w)] = new]

\* the dispatcher starts the workers: worker w gets target w - 1 and the
\* neighbourhood of that target, or its own batch of neighbourhoods
Dispatch ==
    /\ pc = "idle"
    /\ \A w \in Workers : wpc[w] = "idle"
    /\ \/ \E vol \in Volumes, nbs \in [Workers -> WorkerNeighborhoods] :
             /\ wcall' = [w \in Workers |->
                            [op |-> "echo_ratio", neighborhood |-> Flat(nbs[w]),
                             target_point_cloud |-> Some(targetpc),
                             target_index |-> Some(w - 1), volume |-> Some(vol)]]
             /\ wpc' = [w \in Workers |-> "check"]
       \/ \E batches \in [Workers -> WorkerBatches] :
             /\ wcall' = [w \in Workers |->
                            [op |-> "eigen", neighborhood |-> Batch(batches[w]),
                             target_point_cloud |-> None, target_index |-> None,
                             volume |-> None]]
             /\ wpc' = [w \in Workers |-> "pack"]
    /\ wret' = [w \in Workers |-> NoResult]
    /\ frames' = [w \in Workers |-> NoFrame]
    /\ UNCHANGED <<sourcepc, targetpc, neighborhood_arg, pc, call, ret>>

\* echo ratio, lines 51-58: the checks of the arguments
EchoCheck ==
    \E w \in Workers :
       /\ wpc[w] = "check"
       /\ IF ~IsCylinder(wcall[w].volume[1])
             THEN /\ wret' = [wret EXCEPT ![w] = Raises("ValueError")]
                  /\ wpc' = [wpc EXCEPT ![w] = "done"]
             ELSE /\ wpc' = [wpc EXCEPT ![w] = "positions"]
                  /\ UNCHANGED wret
       /\ UNCHANGED <<sourcepc, targetpc, neighborhood_arg, pc, call, ret, wcall, frames>>

\* lines 60-61: xyz and n_cylinder
EchoPositions ==
    \E w \in Workers :
       /\ wpc[w] = "positions"
       /\ LET xyz == get_neighborhood_positions(sourcepc, wcall[w].neighborhood.idx)
          IN  frames' = Assign(w, [Locals(w) EXCEPT !.xyz = xyz, !.n_cylinder = Len(xyz)])
       /\ wpc' = [wpc EXCEPT ![w] = "target"]
       /\ UNCHANGED <<sourcepc, targetpc, neighborhood_arg, pc, call, ret, wcall, wret>>

\* line 63: xyz0
EchoTarget ==
    \E w \in Workers :
       /\ wpc[w] = "target"
       /\ frames' = Assign(w, [Locals(w) EXCEPT !.xyz0 =
                        get_target_position(wcall[w].target_point_cloud[1],
                                            wcall[w].target_index[1])])
       /\ wpc' = [wpc EXCEPT ![w] = "count"]
       /\ UNCHANGED <<sourcepc, targetpc, neighborhood_arg, pc, call, ret, wcall, wret>>

\* line 65: n_sphere
EchoCount ==
    \E w \in Workers :
       /\ wpc[w] = "count"
       /\ LET xyz  == Locals(w).xyz
              xyz0 == Locals(w).xyz0
          IN  frames' = Assign(w, [Locals(w) EXCEPT !.n_sphere =
                           CountTrue([k \in 1..Len(xyz) |->
                               InSphere(xyz[k], xyz0, wcall[w].volume[1].radius)])])
       /\ wpc' = [wpc EXCEPT ![w] = "return"]
       /\ UNCHANGED <<sourcepc, targetpc, neighborhood_arg, pc, call, ret, wcall, wret>>

\* line 66: return n_sphere / n_cylinder * 100.
EchoReturn ==
    \E w \in Workers :
       /\ wpc[w] = "return"
       /\ wret' = [wret EXCEPT ![w] =
                      Returns(<<FMul(FDiv(Flt(Locals(w).n_sphere), Flt(Locals(w).n_cylinder)),
                                     Flt(100))>>)]
       /\ wpc' = [wpc EXCEPT ![w] = "done"]
       /\ UNCHANGED <<sourcepc, targetpc, neighborhood_arg, pc, call, ret, wcall, frames>>

\* eigen, lines 27-30: xyz_grp
EigenPack ==
    \E w \in Workers :
       /\ wpc[w] = "pack"
       /\ frames' = Assign(w, [Locals(w) EXCEPT !.xyz_grp =
                        get_xyz(sourcepc, AsBatch(wcall[w].neighborhood))])
       /\ wpc' = [wpc EXCEPT ![w] = "cov"]
       /\ UNCHANGED <<sourcepc, targetpc, neighborhood_arg, pc, call, ret, wcall, wret>>

\* line 31: cov_mat
EigenCov ==
    \E w \in Workers :
       /\ wpc[w] = "cov"
       /\ frames' = Assign(w, [Locals(w) EXCEPT !.cov_mat = _get_cov(Locals(w).xyz_grp)])
       /\ wpc' = [wpc EXCEPT ![w] = "eig"]
       /\ UNCHANGED <<sourcepc, targetpc, neighborhood_arg, pc, call, ret, wcall, wret>>

\* lines 33-39: the eigenpairs, the features and the return
EigenSolve ==
    \E w \in Workers :
       /\ wpc[w] = "eig"
       /\ LET cov_mat == Locals(w).cov_mat
          IN  \E r \in IF EigRaises(cov_mat) THEN {Raises("LinAlgError")}
                        ELSE {Returns(Columns(rows)) : rows \in BatchOutcomes(cov_mat)} :
                 wret' = [wret EXCEPT ![w] = r]
       /\ wpc' = [wpc EXCEPT ![w] = "done"]
       /\ UNCHANGED <<sourcepc, targetpc, neighborhood_arg, pc, call, ret, wcall, frames>>

\* the dispatcher has the results of all workers
Join ==
    /\ \A w \in Workers : wpc[w] = "done"
    /\ wpc' = [w \in Workers |-> "idle"]
    /\ wcall' = [w \in Workers |-> NoCall]
    /\ wret' = [w \in Workers |-> NoResult]
    /\ frames' = [w \in Workers |-> NoFrame]
    /\ UNCHANGED <<sourcepc, targetpc, neighborhood_arg, pc, call, ret>>

ConcurrentNext ==
    \/ Dispatch
    \/ EchoCheck
    \/ EchoPositions
    \/ EchoTarget
    \/ EchoCount
    \/ EchoReturn
    \/ EigenPack
    \/ EigenCov
    \/ EigenSolve
    \/ Join

ConcurrentSpec == Init /\ [][ConcurrentNext]_vars

---------------------------------------------------------------------------
(* Properties.                                                             *)

Done(op) == pc = "done" /\ call.op = op

Nbr == call.neighborhood.idx

\* squared distance of source point i to target point t
SqDist(i, t) ==
      (sourcepc.x[i + 1] - targetpc.x[t + 1]) * (sourcepc.x[i + 1] - targetpc.x[t + 1])
    + (sourcepc.y[i + 1] - targetpc.y[t + 1]) * (sourcepc.y[i + 1] - targetpc.y[t + 1])
    + (sourcepc.z[i + 1] - targetpc.z[t + 1]) * (sourcepc.z[i + 1] - targetpc.z[t + 1])

\* an echo ratio call whose arguments pass the three checks
EchoValidCall ==
    /\ Done("echo_ratio")
    /\ call.volume[1].TYPE = "infinite cylinder"
    /\ call.target_point_cloud # None
    /\ call.target_index # None

\* the positions k of the neighbourhood whose point lies in the closed sphere
SpherePositions ==
    {k \in 1..Len(Nbr) :
        SqDist(Nbr[k], call.target_index[1])
            <= call.volume[1].radius * call.volume[1].radius}

\* C1: with a cylinder of radius r, a non-empty neighbourhood of c indices and
\* a target point, the echo ratio is 100 * s / c, s the number of
\* neighbourhood points at squared distance <= r^2 from the target
C1_EchoRatio ==
    (EchoValidCall /\ Len(Nbr) > 0) =>
        ret = Returns(<<Frac(100 * Cardinality(SpherePositions), Len(Nbr))>>)

\* a call whose neighbourhood has a point exactly at distance r, one inside
\* and one outside the sphere
C1_Witness ==
    /\ EchoValidCall
    /\ \E k \in SpherePositions :
          SqDist(Nbr[k], call.target_index[1])
              = call.volume[1].radius * call.volume[1].radius
    /\ \E k \in SpherePositions :
          SqDist(Nbr[k], call.target_index[1])
              < call.volume[1].radius * call.volume[1].radius
    /\ Cardinality(SpherePositions) < Len(Nbr)
    /\ ret.kind = "value"

Lists == AsBatch(call.neighborhood)

Feature(f, i) == ret.val[f][i]

Eigenvalues(i) == <<Feature(1, i), Feature(2, i), Feature(3, i)>>

Normal(i) == <<Feature(4, i), Feature(5, i), Feature(6, i)>>

\* a vectorized call on a list of lists
BatchCall == Done("eigen") /\ ~call.neighborhood.flat

\* the covariance matrix of a neighbourhood of two or more points
Covariance(nb) == NpCov(get_point(sourcepc, nb))

\* the eigenvalues of a diagonal matrix: its diagonal
Diagonal(mat) == <<mat[1][1], mat[2][2], mat[3][3]>>

IsPermutationOf(a, b) == \E p \in SolverOrders : \A k \in Axes : a[k] = b[p[k]]

MatVec(mat, v) == [j \in Axes |-> FSum([l \in Axes |-> FMul(mat[j][l], v[l])])]

Scaled(c, v) == [j \in Axes |-> FMul(c, v[j])]

ZeroVector == <<Flt(0), Flt(0), Flt(0)>>

\* C3: for every neighbourhood of a batch with 0 or 1 valid points the call
\* returns exactly 0 for the three eigenvalues and the three normal
\* components; it does not raise and produces no NaN or Inf
C3_TooFewPointsGiveZero ==
    BatchCall =>
        \A i \in 1..Len(Lists) :
            Len(Lists[i]) <= 1 =>
                /\ ret.kind = "value"
                /\ Eigenvalues(i) = ZeroVector
                /\ Normal(i) = ZeroVector

\* C4: the eigenvalue triples of the vectorized call are, neighbourhood by
\* neighbourhood, the triples EigenValueSerial.extract returns
C4_VectorizedEqualsSerial ==
    (Done("eigen") /\ ret.kind = "value") =>
        \A i \in 1..Len(Lists) :
            \A serial \in EigenValueSerialExtract(sourcepc, Lists[i]) :
                Eigenvalues(i) = serial.val

\* C5: the three eigenvalues of every neighbourhood come back in descending
\* order, and they are a permutation of the eigenvalues of its covariance
\* (where two or more points define one), whatever the order of the solver
C5_EigenvaluesDescending ==
    (Done("eigen") /\ ret.kind = "value") =>
        \A i \in 1..Len(Lists) :
            /\ FLeq(Feature(2, i), Feature(1, i))
            /\ FLeq(Feature(3, i), Feature(2, i))
            /\ Len(Lists[i]) >= 2 =>
                  IsPermutationOf(Eigenvalues(i), Diagonal(Covariance(Lists[i])))

\* a neighbourhood with three different eigenvalues, returned in descending
\* order by a call in which the solver emitted the middle one last (the x
\* axis is the third eigenvector)
C5_Witness ==
    /\ BatchCall
    /\ ret.kind = "value"
    /\ \E i \in 1..Len(Lists) :
          /\ Lists[i] = <<0, 1, 2, 3>>
          /\ Eigenvalues(i) = <<Frac(4, 3), Frac(1, 3), Flt(0)>>
          /\ Normal(i) = <<Flt(1), Flt(0), Flt(0)>>

\* C6: the normal of every neighbourhood is an eigenvector of its covariance
\* for the smallest eigenvalue, the one returned as eigenv_3
C6_NormalOfSmallestEigenvalue ==
    (Done("eigen") /\ ret.kind = "value") =>
        \A i \in 1..Len(Lists) :
            Len(Lists[i]) >= 2 =>
                /\ Normal(i) # ZeroVector
                /\ MatVec(Covariance(Lists[i]), Normal(i))
                      = Scaled(Feature(3, i), Normal(i))

\* C7: the percentile call on an empty neighbourhood fails; it returns no
\* list of values
C7_PercentileEmptyFails ==
    (Done("percentile") /\ Len(Nbr) = 0) => ret.kind = "raise"

\* C8: the echo ratio call on an empty neighbourhood, its arguments otherwise
\* valid, returns a defined value or fails; it returns no NaN or Inf
C8_EchoRatioEmptyDefined ==
    (EchoValidCall /\ Len(Nbr) = 0) =>
        \/ ret.kind = "raise"
        \/ ret.kind = "value" /\ IsFinite(ret.val[1])

\* a batch with a neighbourhood of 0 or 1 points and one of 2 or more
MixedBatch ==
    /\ BatchCall
    /\ \E i \in 1..Len(Lists) : Len(Lists[i]) <= 1
    /\ \E i \in 1..Len(Lists) : Len(Lists[i]) >= 2

\* C9: a vectorized call on a batch that mixes degenerate neighbourhoods with
\* others does not fail as a whole: no error surfaces and every neighbourhood
\* gets a result (that the result of a degenerate one is zero is C3)
C9_DegeneracyDoesNotFailBatch ==
    MixedBatch =>
        /\ ret.kind = "value"
        /\ \A f \in 1..7 : Len(ret.val[f]) = Len(Lists)

\* C10: the percentile call on a neighbourhood of one point returns 10 values,
\* each the z coordinate of that point
C10_PercentileSinglePoint ==
    (Done("percentile") /\ Len(Nbr) = 1) =>
        ret = Returns([k \in 1..10 |-> Flt(sourcepc.z[Nbr[1] + 1])])

\* a call on the single point 1, whose z differs from its x and y
C10_Witness ==
    /\ Done("percentile")
    /\ Nbr = <<1>>
    /\ ret.kind = "value"
    /\ Len(ret.val) = 10
    /\ ret.val[1] = Flt(2)
    /\ ret.val[10] = Flt(2)

\* the position of a feature name in a list of names
IndexOf(names, name) == CHOOSE f \in 1..Len(names) : names[f] = name

\* the value an eigen call returned for neighbourhood i under a name of provides
Named(name, i) == Feature(IndexOf(EigenValueVectorizeProvides, name), i)

\* C11: whenever extract returns, the number and the order of the values are
\* those of provides: one echo ratio; 10 percentiles, the value at the place
\* of perc_p being the p-th percentile of z; 7 sequences of one entry for each
\* neighbourhood, the places of eigenv_1..3 holding the eigenvalues
\* descending, those of normal_vector_1..3 the x, y and z component of the
\* third eigenvector and that of slope its z component
C11_ReturnMatchesProvides ==
    /\ (Done("echo_ratio") /\ ret.kind = "value") =>
          Len(ret.val) = Len(EchoRatioProvides)
    /\ (Done("percentile") /\ ret.kind = "value") =>
          /\ Len(ret.val) = Len(PercentileProvides)
          /\ \A k \in 1..Len(PercentileProvides) :
                \E p \in 1..100 :
                   /\ PercentileProvides[k] = "perc_" \o ToString(p)
                   /\ ret.val[k] = scoreatpercentile(GetZ(sourcepc, Nbr), p)
    /\ (Done("eigen") /\ ret.kind = "value") =>
          /\ Len(ret.val) = Len(EigenValueVectorizeProvides)
          /\ \A f \in 1..Len(ret.val) : Len(ret.val[f]) = Len(Lists)
          /\ \A i \in 1..Len(Lists) :
                \E p \in SolverOrders :
                   LET eig == Eig(_get_cov(get_xyz(sourcepc, Lists))[i], p)
                       e   == Reverse(Sort(eig.eigval))
                   IN  /\ Named("eigenv_1", i) = e[1]
                       /\ Named("eigenv_2", i) = e[2]
                       /\ Named("eigenv_3", i) = e[3]
                       /\ Named("normal_vector_1", i) = eig.eigvects[1][3]
                       /\ Named("normal_vector_2", i) = eig.eigvects[2][3]
                       /\ Named("normal_vector_3", i) = eig.eigvects[3][3]
                       /\ Named("slope", i) = eig.eigvects[3][3]

\* an eigen call on the four points of the plane y = 0 that returned the
\* y axis as normal
C11_Witness ==
    /\ Done("eigen")
    /\ ret.kind = "value"
    /\ Lists = <<<<0, 1, 2, 3>>>>
    /\ Len(ret.val) = 7
    /\ Eigenvalues(1) = <<Frac(4, 3), Frac(1, 3), Flt(0)>>
    /\ Normal(1) = <<Flt(0), Flt(1), Flt(0)>>
    /\ Feature(7, 1) = Flt(0)

\* C12: after any sequence of extract calls, returning or raising, the source
\* cloud and the target cloud are what they were before the first call, and
\* the index list the caller passed is what it was when it was passed
C12_ExtractLeavesInputsUnchanged ==
    /\ sourcepc = SourceCloud
    /\ targetpc = TargetCloud
    /\ pc = "done" => neighborhood_arg = call.neighborhood

\* a percentile call on two points whose z values are not in ascending order
C12_Witness ==
    /\ Done("percentile")
    /\ Nbr = <<1, 2>>
    /\ ret.kind = "value"
    /\ ret.val[10] = Flt(2)
    /\ sourcepc.z = <<0, 2, 0, 2, 0, 0>>
    /\ neighborhood_arg = Flat(<<1, 2>>)

\* what the call of worker w returns when it runs alone
Alone(w) ==
    IF wcall[w].op = "echo_ratio"
      THEN {EchoRatioExtract(sourcepc, wcall[w].neighborhood.idx, wcall[w].target_point_cloud,
                             wcall[w].target_index, wcall[w].volume[1])}
      ELSE EigenValueVectorizeExtract(sourcepc, wcall[w].neighborhood)

\* C13: when the workers call extract concurrently on the same clouds, each
\* for its own targets and without locks, every call returns what it returns
\* when it runs alone, whatever the interleaving of their statements
C13_ConcurrentCallsAsAlone ==
    \A w \in Workers : wpc[w] = "done" => wret[w] \in Alone(w)

\* worker 1 has returned the ratio 100 for target 0 while worker 2, on the
\* same neighbourhood, holds the position of target 1 and has not returned yet
C13_Witness ==
    /\ wpc[1] = "done"
    /\ wcall[1].op = "echo_ratio"
    /\ wcall[1].neighborhood = wcall[2].neighborhood
    /\ wret[1] = Returns(<<Flt(100)>>)
    /\ wpc[2] = "return"
    /\ frames[2].xyz0 # frames[1].xyz0
    /\ frames[2].n_sphere = 0

\* the mean of the valid coordinates of a neighbourhood, axis by axis
MeanOfValid(nb) ==
    [j \in Axes |-> FDiv(FSum(get_point(sourcepc, nb)[j]), Flt(Len(nb)))]

\* C14: in a padded batch of neighbourhoods, the count n of a neighbourhood
\* is the padded length less its masked entries, that is its number of
\* points; its mean is the sum of its valid coordinates divided by n; its
\* covariance is the sum of the products of its centred valid coordinates
\* divided by n - 1; and both are what they are when the neighbourhood is
\* packed alone
C14_MaskedMeanAndCovariance ==
    BatchCall =>
        LET xyz   == get_xyz(sourcepc, Lists)
            cov   == _get_cov(xyz)
        IN  \A i \in 1..Len(Lists) :
               LET alone == get_xyz(sourcepc, <<Lists[i]>>)
               IN  /\ ValidCount(xyz[i]) = Len(Lists[i])
                   /\ MaskedMean(xyz[i]) = MeanOfValid(Lists[i])
                   /\ cov[i] = NpCov(get_point(sourcepc, Lists[i]))
                   /\ MaskedMean(xyz[i]) = MaskedMean(alone[1])
                   /\ cov[i] = _get_cov(alone)[1]

\* a batch of the vertical pair, padded with two entries, and the four
\* points of the plane: the pair has mean (0, 0, 1) and variance 2 along z
C14_Witness ==
    /\ BatchCall
    /\ ret.kind = "value"
    /\ Lists = <<<<0, 1>>, <<0, 1, 2, 3>>>>
    /\ CountTrue(get_xyz(sourcepc, Lists)[1].mask) = 2
    /\ MaskedMean(get_xyz(sourcepc, Lists)[1]) = <<Flt(0), Flt(0), Flt(1)>>
    /\ _get_cov(get_xyz(sourcepc, Lists))[1]
          = <<<<Flt(0), Flt(0), Flt(0)>>, <<Flt(0), Flt(0), Flt(0)>>, <<Flt(0), Flt(0), Flt(2)>>>>
    /\ Eigenvalues(1) = <<Flt(2), Flt(0), Flt(0)>>

\* the target point's own position is among the neighbourhood points
TargetAmongNeighbors ==
    \E k \in 1..Len(Nbr) : SqDist(Nbr[k], call.target_index[1]) = 0

\* C15: whenever the echo ratio call returns a value for a non-empty
\* neighbourhood, repeated indices counted each time, the value is a number
\* in [0, 100], and it is greater than 0 when the target point's own position
\* is among the neighbourhood points
C15_EchoRatioRange ==
    (EchoValidCall /\ ret.kind = "value" /\ Len(Nbr) > 0) =>
        /\ IsFinite(ret.val[1])
        /\ FLeq(Flt(0), ret.val[1])
        /\ FLeq(ret.val[1], Flt(100))
        /\ TargetAmongNeighbors => ~FLeq(ret.val[1], Flt(0))

\* the target's own position once and a point outside the sphere twice
C15_Witness ==
    /\ EchoValidCall
    /\ ret.kind = "value"
    /\ Nbr = <<0, 1, 1>>
    /\ call.target_index = Some(0)
    /\ call.volume[1].radius = 1
    /\ TargetAmongNeighbors
    /\ ret.val[1] = Frac(100, 3)

=============================================================================
